---- MODULE Spec2Model ----
(***************************************************************************)
(* Model of bitrecs/llms/prompt_factory.py: the LLM response recovery      *)
(* parser PromptFactory.tryparse_llm and the class-level response cache    *)
(* (_response_cache / _cache_timestamps).                                  *)
(*                                                                         *)
(* Text is modelled as a sequence of tokens.  Every token stands for a     *)
(* fixed run of characters (see TokLen), so character lengths, find/rfind, *)
(* slicing, replace, strip and split are computed on the token sequence    *)
(* exactly as the code computes them on the characters.                    *)
(***************************************************************************)
EXTENDS Integers, Sequences, FiniteSets, TLC

VARIABLES
    \* tryparse_llm
    raw,               \* the argument input_str
    pc,                \* the statement the call is at
    cleaned,           \* the local cleaned_input
    stages,            \* the steps invoked so far, in order
    outcome,           \* how the call ended
    loops,             \* history: the iterations the loops of the call made
    \* the response cache
    response_cache,    \* PromptFactory._response_cache: key -> list object
    cache_timestamps,  \* PromptFactory._cache_timestamps: key -> time
    heap,              \* the contents of the list objects callers created
    now,               \* time.time()
    lastOp,            \* the call the last step made, and what it returned
    stored,            \* history: the last store made under each key
    thr,               \* the threads of the interleaved cache calls
    writer,            \* history: which store wrote each dictionary item
    \* _get_cache_key
    kc                 \* two calls of _get_cache_key: arguments and results

parseVars == <<raw, pc, cleaned, stages, outcome, loops>>
cacheVars == <<response_cache, cache_timestamps, heap, now, lastOp, stored, thr,
               writer>>
keyVars == <<kc>>
vars == <<raw, pc, cleaned, stages, outcome, loops,
          response_cache, cache_timestamps, heap, now, lastOp, stored, thr,
          writer, kc>>

(***************************************************************************)
(* Bounds of the model.                                                    *)
(***************************************************************************)
\* an input text is the concatenation of at most MaxFrags fragments
MaxFrags == 3
\* a line-structured input text has at most MaxLines lines
MaxLines == 3

(***************************************************************************)
(* Program constants.                                                      *)
(***************************************************************************)
\* prompt_factory.py:254  len(input_str) < 10
MinLen == 10
\* depth of the bracket run the token DEEP stands for; json.loads raises
\* RecursionError on it (the interpreter's recursion limit is far below it)
DeepLen == 100000

(***************************************************************************)
(* Tokens and their characters.                                            *)
(*   "["  "]"  "{"  "}"  ","   the single characters                       *)
(*   "NL"      a newline                                                   *)
(*   "FENCE"   ```            "FJSON"  ```json                             *)
(*   "W"       the prose word  picks                                       *)
(*   "skuA"    "sku":"A"      "nameX"  "name":"X"   (complete members)     *)
(*   "price9"  "price":"9"    "reasonR" "reason":"R"                       *)
(*   "reasonF" "reason":"```R"  (its value, written "<fence>R" below,       *)
(*                               holds a fence)                            *)
(*   "KEY"     "sku":         (a member key, its value follows)            *)
(*   "DEEP"    DeepLen times the character [                               *)
(***************************************************************************)
Tokens == {"[", "]", "{", "}", ",", "NL", "FENCE", "FJSON", "W",
           "skuA", "nameX", "price9", "reasonR", "reasonF", "KEY", "DEEP"}

TokLen(t) ==
    CASE t \in {"[", "]", "{", "}", ",", "NL"} -> 1
      [] t = "FENCE" -> 3
      [] t = "FJSON" -> 7
      [] t = "W"     -> 5
      [] t = "skuA"  -> 9
      [] t = "nameX" -> 10
      [] t = "price9" -> 11
      [] t = "reasonR" -> 12
      [] t = "reasonF" -> 15
      [] t = "KEY"   -> 6
      [] t = "DEEP"  -> DeepLen

RECURSIVE StrLen(_)
\* len(str): the number of characters of a token sequence
StrLen(s) == IF s = <<>> THEN 0 ELSE TokLen(Head(s)) + StrLen(Tail(s))

\* str.strip() / JSON whitespace: the only whitespace token is the newline
IsWs(t) == t = "NL"

\* tokens that are a complete  "key":"value"  member
PairToks == {"skuA", "nameX", "price9", "reasonR", "reasonF"}
PairKey(t) ==
    CASE t = "skuA" -> "sku" [] t = "nameX" -> "name"
      [] t = "price9" -> "price" [] t = "reasonR" -> "reason"
      [] t = "reasonF" -> "reason"
PairVal(t) ==
    CASE t = "skuA" -> "A" [] t = "nameX" -> "X"
      [] t = "price9" -> "9" [] t = "reasonR" -> "R"
      [] t = "reasonF" -> "<fence>R"

\* tokens whose first character is a double quote
StartsWithQuote(t) == t \in PairToks \cup {"KEY"}
\* the characters of the first string literal of such a token
FirstString(t) == IF t = "KEY" THEN "sku" ELSE PairKey(t)

(***************************************************************************)
(* str helpers                                                             *)
(***************************************************************************)
\* what str.replace(tok, "") leaves of one token: nothing of the token
\* itself, and of a member whose value holds a fence the member without it
Without(t, tok) ==
    IF t = tok THEN <<>>
    ELSE IF t = "reasonF" /\ tok = "FENCE" THEN <<"reasonR">>
    ELSE <<t>>

RECURSIVE RemoveTok(_, _)
\* s.replace(tok, "")
RemoveTok(s, tok) ==
    IF s = <<>> THEN <<>>
    ELSE Without(Head(s), tok) \o RemoveTok(Tail(s), tok)

RECURSIVE LStrip(_)
LStrip(s) == IF s # <<>> /\ IsWs(Head(s)) THEN LStrip(Tail(s)) ELSE s

RECURSIVE RStrip(_)
RStrip(s) ==
    IF s # <<>> /\ IsWs(s[Len(s)]) THEN RStrip(SubSeq(s, 1, Len(s) - 1)) ELSE s

\* s.strip()
Strip(s) == RStrip(LStrip(s))

\* s.find(c, from): 1-based index of the first token at or after `from`
\* that holds the character class `cs`, 0 when there is none (Python's -1)
Find(s, cs, from) ==
    IF \E i \in from..Len(s) : s[i] \in cs
    THEN CHOOSE i \in from..Len(s) :
            s[i] \in cs /\ \A j \in from..(i - 1) : s[j] \notin cs
    ELSE 0

\* s.rfind(c): index of the last token holding the character, 0 when none
RFind(s, cs) ==
    IF \E i \in 1..Len(s) : s[i] \in cs
    THEN CHOOSE i \in 1..Len(s) :
            s[i] \in cs /\ \A j \in (i + 1)..Len(s) : s[j] \notin cs
    ELSE 0

(***************************************************************************)
(* JSON values.  A value is a record [t, s, items]:                        *)
(*   t = "str"  : the string s                                             *)
(*   t = "list" : items is the sequence of element values                  *)
(*   t = "dict" : items is the sequence of members [k, v] in insertion     *)
(*                order                                                    *)
(***************************************************************************)
Str(x)    == [t |-> "str",  s |-> x,  items |-> <<>>]
List(xs)  == [t |-> "list", s |-> "", items |-> xs]
Dict(ms)  == [t |-> "dict", s |-> "", items |-> ms]
NoValue   == [t |-> "none", s |-> "", items |-> <<>>]

\* isinstance(v, list) / isinstance(v, dict) / key in dict
IsList(v) == v.t = "list"
IsDict(v) == v.t = "dict"
HasKey(v, k) == IsDict(v) /\ \E i \in 1..Len(v.items) : v.items[i].k = k

\* d[k] = v on the member sequence of a dict: a repeated key keeps its place
\* and takes the later value
DictSet(ms, k, v) ==
    IF \E i \in 1..Len(ms) : ms[i].k = k
    THEN [i \in 1..Len(ms) |-> IF ms[i].k = k THEN [k |-> k, v |-> v] ELSE ms[i]]
    ELSE Append(ms, [k |-> k, v |-> v])

(***************************************************************************)
(* json.loads.  A parse step returns [st, val, pos]:                       *)
(*   st = "ok"     : val parsed, pos is the index of the next token        *)
(*   st = "decode" : json.JSONDecodeError                                  *)
(*   st = "other"  : another exception (RecursionError)                    *)
(***************************************************************************)
Ok(v, p)    == [st |-> "ok", val |-> v, pos |-> p]
DecodeError == [st |-> "decode", val |-> NoValue, pos |-> 0]
OtherError  == [st |-> "other", val |-> NoValue, pos |-> 0]

RECURSIVE SkipWs(_, _)
SkipWs(s, i) == IF i <= Len(s) /\ IsWs(s[i]) THEN SkipWs(s, i + 1) ELSE i

RECURSIVE ParseValue(_, _)
RECURSIVE ParseArray(_, _, _)
RECURSIVE ParseObject(_, _, _)

\* scan_once(s, i): one JSON value starting at token i
ParseValue(s, i) ==
    IF i > Len(s) THEN DecodeError
    ELSE CASE s[i] = "[" ->
                LET j == SkipWs(s, i + 1)
                IN  IF j <= Len(s) /\ s[j] = "]" THEN Ok(List(<<>>), j + 1)
                    ELSE ParseArray(s, j, <<>>)
           [] s[i] = "{" ->
                LET j == SkipWs(s, i + 1)
                IN  IF j <= Len(s) /\ s[j] = "}" THEN Ok(Dict(<<>>), j + 1)
                    ELSE ParseObject(s, j, <<>>)
           [] s[i] = "DEEP" -> OtherError
           \* a quoted token parses as its first string literal and leaves
           \* its colon behind, which no caller accepts after a value
           [] OTHER -> DecodeError

\* the elements of an array, token i being where the next element starts
ParseArray(s, i, acc) ==
    LET r == ParseValue(s, i)
    IN  IF r.st # "ok" THEN r
        ELSE LET j == SkipWs(s, r.pos)
             IN  IF j > Len(s) THEN DecodeError
                 ELSE IF s[j] = "]" THEN Ok(List(Append(acc, r.val)), j + 1)
                 ELSE IF s[j] = "," THEN
                        ParseArray(s, SkipWs(s, j + 1), Append(acc, r.val))
                 ELSE DecodeError

\* the members of an object, token i being where the next key starts
ParseObject(s, i, acc) ==
    IF i > Len(s) \/ ~StartsWithQuote(s[i]) THEN DecodeError
    ELSE LET m == IF s[i] \in PairToks
                  THEN Ok(Str(PairVal(s[i])), i + 1)
                  ELSE ParseValue(s, SkipWs(s, i + 1))
             k == FirstString(s[i])
         IN  IF m.st # "ok" THEN m
             ELSE LET j == SkipWs(s, m.pos)
                      ms == DictSet(acc, k, m.val)
                  IN  IF j > Len(s) THEN DecodeError
                      ELSE IF s[j] = "}" THEN Ok(Dict(ms), j + 1)
                      ELSE IF s[j] = "," THEN ParseObject(s, SkipWs(s, j + 1), ms)
                      ELSE DecodeError

\* json.loads(s): one value, whitespace around it, nothing else
JsonLoads(s) ==
    LET r == ParseValue(s, SkipWs(s, 1))
    IN  IF r.st # "ok" THEN r
        ELSE IF SkipWs(s, r.pos) = Len(s) + 1 THEN r ELSE DecodeError

(***************************************************************************)
(* tryparse_llm: the guard, the normalisation and the five methods.        *)
(* A method returns [kind, val]:                                           *)
(*   kind = "yield" : the method returns val from tryparse_llm             *)
(*   kind = "none"  : the method falls through to the next one             *)
(*   kind = "raise" : an exception leaves the method uncaught              *)
(***************************************************************************)
Yield(xs) == [kind |-> "yield", val |-> xs]
Nothing   == [kind |-> "none",  val |-> <<>>]
Raise     == [kind |-> "raise", val |-> <<>>]

\* if not input_str or len(input_str) < 10
TooShortBelow5(input) == ~input.present \/ StrLen(input.toks) < 5
TooShort(input) == ~input.present \/ StrLen(input.toks) < MinLen

\* input_str.replace("```json", "").replace("```", "").strip()
\*          .replace("```", "").strip()
Normalize(s) ==
    Strip(RemoveTok(Strip(RemoveTok(RemoveTok(s, "FJSON"), "FENCE")), "FENCE"))

\* try: result = json.loads(text); non-empty list -> return
\* except json.JSONDecodeError: fall through.  Any other exception escapes.
LoadsNonEmptyList(text) ==
    LET r == JsonLoads(text)
    IN  CASE r.st = "decode" -> Nothing
          [] r.st = "other"  -> Raise
          [] OTHER -> IF IsList(r.val) /\ Len(r.val.items) > 0
                      THEN Yield(r.val.items) ELSE Nothing

\* Method 1: direct JSON parsing
Method1(text) == LoadsNonEmptyList(text)

\* Method 2: first '[' to last ']'
Method2(text) ==
    LET start == Find(text, {"[", "DEEP"}, 1)
        end   == RFind(text, {"]"})
    IN  IF start # 0 /\ end > start
        THEN LoadsNonEmptyList(SubSeq(text, start, end))
        ELSE Nothing

\* the state the while loop of Method 3 ends in, with the cursors it went
\* through; st "other" stands for an exception that is not a JSONDecodeError
\* and leaves the loop
Scanned(r, cursors) ==
    [st |-> r.st, val |-> r.val, pos |-> r.pos, cursors |-> cursors]

RECURSIVE ObjectScanRescan(_, _, _)
\* a scan that resumes just past the opening brace instead of the closing one
ObjectScanRescan(text, current_pos, objects) ==
    IF current_pos > Len(text) THEN Scanned(Ok(List(objects), current_pos), <<>>)
    ELSE LET start == Find(text, {"{"}, current_pos)
             end   == IF start = 0 THEN 0 ELSE Find(text, {"}"}, start)
         IN  IF start = 0 \/ end = 0
             THEN Scanned(Ok(List(objects), current_pos), <<current_pos>>)
             ELSE LET rest == ObjectScanRescan(text, start + 1, objects)
                  IN  [rest EXCEPT !.cursors = <<current_pos>> \o @]

RECURSIVE ObjectScan(_, _, _)
\* the while loop of Method 3 from current_pos on: the list of objects it
\* ends with and the cursor of each iteration, or the exception that left it
ObjectScan(text, current_pos, objects) ==
    IF current_pos > Len(text) THEN Scanned(Ok(List(objects), current_pos), <<>>)
    ELSE LET start == Find(text, {"{"}, current_pos)
             end   == IF start = 0 THEN 0 ELSE Find(text, {"}"}, start)
         IN  IF start = 0 \/ end = 0
             THEN Scanned(Ok(List(objects), current_pos), <<current_pos>>)
             ELSE LET r == JsonLoads(SubSeq(text, start, end))
                      rest ==
                        CASE r.st = "other"  -> Scanned(OtherError, <<>>)
                          [] r.st = "decode" -> ObjectScan(text, end + 1, objects)
                          [] OTHER ->
                              ObjectScan(text, end + 1,
                                  IF IsDict(r.val) /\ HasKey(r.val, "sku")
                                  THEN Append(objects, r.val) ELSE objects)
                  IN  [rest EXCEPT !.cursors = <<current_pos>> \o @]

\* Method 3: individual objects; except Exception swallows everything
Method3(text) ==
    LET r == ObjectScan(text, 1, <<>>)
    IN  IF r.st = "ok" /\ Len(r.val.items) > 0 THEN Yield(r.val.items)
        ELSE Nothing

\* the names bound in the module's namespace by its import statements
ModuleNames == {"re", "json", "time", "tiktoken", "bt", "CONST", "lru_cache",
                "List", "Optional", "Dict", "datetime", "UserProfile",
                "ProductFactory", "ttl_cache"}

RECURSIVE Unclosed(_, _)
\* the brackets and braces of s that are still open at its end, innermost
\* first
Unclosed(s, stack) ==
    IF s = <<>> THEN stack
    ELSE LET h == Head(s)
         IN  CASE h \in {"[", "{"} -> Unclosed(Tail(s), <<h>> \o stack)
               [] /\ h \in {"]", "}"} /\ stack # <<>>
                  /\ Head(stack) = (IF h = "]" THEN "[" ELSE "{") ->
                        Unclosed(Tail(s), Tail(stack))
               [] OTHER -> Unclosed(Tail(s), stack)

\* a comma followed (whitespace apart) by a closer or by the end of the text
IsTrailingComma(s, i) ==
    /\ s[i] = ","
    /\ LET j == SkipWs(s, i + 1) IN j > Len(s) \/ s[j] \in {"]", "}"}

\* the JSON repair collaborator: removes trailing commas and closes what is
\* left open
RepairJson(s) ==
    LET kept == {i \in 1..Len(s) : ~IsTrailingComma(s, i)}
        F[i \in 0..Len(s)] ==
            IF i = 0 THEN <<>>
            ELSE IF i \in kept THEN Append(F[i - 1], s[i]) ELSE F[i - 1]
        open == Unclosed(F[Len(s)], <<>>)
    IN  F[Len(s)] \o [i \in 1..Len(open) |-> IF open[i] = "[" THEN "]" ELSE "}"]

\* Method 4: json_repair.repair_json(cleaned_input).  The name json_repair
\* is not bound in the module, so its evaluation raises NameError, which
\* except Exception swallows: the method falls through.
Method4(text) ==
    IF "json_repair" \notin ModuleNames THEN Nothing
    ELSE LET r == LoadsNonEmptyList(RepairJson(text))
         IN  IF r.kind = "raise" THEN Nothing ELSE r

RECURSIVE Split(_, _)
\* s.split('\n'): cur is the line being collected
Split(s, cur) ==
    IF s = <<>> THEN <<cur>>
    ELSE IF Head(s) = "NL" THEN <<cur>> \o Split(Tail(s), <<>>)
    ELSE Split(Tail(s), Append(cur, Head(s)))

\* 'sku' in line.lower(), 'name' in line.lower(), 'price' in line.lower()
ContainsWord(line, w) ==
    \E i \in 1..Len(line) :
        \/ line[i] \in PairToks /\ PairKey(line[i]) = w
        \/ line[i] = "KEY" /\ w = "sku"

\* does  "f":\s*"([^"]+)"  match at token i of the line
MatchesAt(line, f, i) ==
    \/ line[i] \in PairToks /\ PairKey(line[i]) = f
    \/ /\ line[i] = "KEY" /\ f = "sku"
       /\ i < Len(line) /\ StartsWithQuote(line[i + 1])

\* re.search(r'"f":\s*"([^"]+)"', line): [found, group1]
Search(line, f) ==
    IF \E i \in 1..Len(line) : MatchesAt(line, f, i)
    THEN LET i == CHOOSE i \in 1..Len(line) :
                    MatchesAt(line, f, i)
                    /\ \A j \in 1..(i - 1) : ~MatchesAt(line, f, j)
         IN  [found |-> TRUE,
              group1 |-> IF line[i] \in PairToks THEN PairVal(line[i])
                         ELSE FirstString(line[i + 1])]
    ELSE [found |-> FALSE, group1 |-> ""]

\* a loop body that appends a record whenever the sku pattern matches
SalvageLineSkuOnly(line) ==
    IF Search(line, "sku").found
    THEN << Dict(<< [k |-> "sku",  v |-> Str(Search(line, "sku").group1)],
                   [k |-> "name", v |-> Str(Search(line, "name").group1)],
                   [k |-> "price", v |-> Str(Search(line, "price").group1)],
                   [k |-> "reason", v |-> Str(Search(line, "reason").group1)] >>) >>
    ELSE <<>>

\* the body of the for loop of Method 5 for one line: the records it appends
SalvageLine(line) ==
    IF ContainsWord(line, "sku")
       /\ (ContainsWord(line, "name") \/ ContainsWord(line, "price"))
    THEN LET sku_match    == Search(line, "sku")
             name_match   == Search(line, "name")
             price_match  == Search(line, "price")
             reason_match == Search(line, "reason")
         IN  IF sku_match.found /\ name_match.found
             THEN << Dict(<< [k |-> "sku",  v |-> Str(sku_match.group1)],
                            [k |-> "name", v |-> Str(name_match.group1)],
                            [k |-> "price",
                             v |-> Str(IF price_match.found
                                       THEN price_match.group1 ELSE "0")],
                            [k |-> "reason",
                             v |-> Str(IF reason_match.found
                                       THEN reason_match.group1
                                       ELSE "Recommended product")] >>) >>
             ELSE <<>>
    ELSE <<>>

RECURSIVE SalvageLines(_)
SalvageLines(lines) ==
    IF lines = <<>> THEN <<>>
    ELSE SalvageLine(Head(lines)) \o SalvageLines(Tail(lines))

\* Method 5: line-level fallback
Method5(text) ==
    LET fallback_objects == SalvageLines(Split(text, <<>>))
    IN  IF Len(fallback_objects) > 0 THEN Yield(fallback_objects) ELSE Nothing

(***************************************************************************)
(* The parser as a process: one action for the guard and normalisation,    *)
(* one per method, one for the final return.                               *)
(*   stages  : the methods invoked so far, in order                        *)
(*   outcome : [kind, val, by]; kind is "pending", "return" or "raise",    *)
(*             by names the statement that ended the call                  *)
(***************************************************************************)
Pending == [kind |-> "pending", val |-> <<>>, by |-> ""]

\* scan: the value of current_pos at the start of each iteration of the
\* while loop of Method 3; lines: the iterations of the for loop of Method 5
NoLoops == [scan |-> <<>>, lines |-> 0]

Absent == [present |-> FALSE, toks |-> <<>>]
Text(s) == [present |-> TRUE, toks |-> s]

\* the pieces input texts are assembled from
Fragments ==
    { <<"W">>, <<"[">>, <<"]">>, <<",">>, <<"NL">>, <<"{">>, <<"}">>,
      <<"FENCE">>, <<"FJSON">>, <<"DEEP">>, <<"skuA">>, <<"nameX">>,
      <<"{", "skuA", ",", "nameX", "}">>,
      <<"{", "nameX", "}">>,
      <<"{", "KEY", "DEEP", "}">>,
      <<"[", "{", "skuA", ",", "nameX", "}", "]">>,
      <<"[", "{", "skuA", ",", "nameX", ",", "price9", ",", "reasonF", "}", "]">> }

RECURSIVE Concats(_)
\* the concatenations of at most n fragments
Concats(n) ==
    IF n = 0 THEN {<<>>}
    ELSE LET prev == Concats(n - 1)
         IN  prev \cup {p \o f : p \in prev, f \in Fragments}

Inputs == Concats(MaxFrags)

\* what a method's result does to the call: return, raise, or go on to next
Advance(stage, r, next) ==
    /\ stages' = Append(stages, stage)
    /\ IF r.kind = "yield"
       THEN /\ outcome' = [kind |-> "return", val |-> r.val, by |-> stage]
            /\ pc' = "done"
       ELSE IF r.kind = "raise"
       THEN /\ outcome' = [kind |-> "raise", val |-> <<>>, by |-> stage]
            /\ pc' = "done"
       ELSE /\ outcome' = outcome
            /\ pc' = next
    /\ UNCHANGED <<raw, cleaned>>

\* lines 254-264: the guard and the cleanup
Enter ==
    /\ pc = "entry"
    /\ IF TooShort(raw)
       THEN /\ outcome' = [kind |-> "return", val |-> <<>>, by |-> "guard"]
            /\ pc' = "done"
            /\ cleaned' = cleaned
            /\ stages' = stages
       ELSE /\ cleaned' = Normalize(raw.toks)
            /\ stages' = Append(stages, "normalize")
            /\ pc' = "m1"
            /\ outcome' = outcome
    /\ UNCHANGED <<raw, loops>>
    /\ UNCHANGED cacheVars
    /\ UNCHANGED keyVars

RunMethod1 ==
    /\ pc = "m1"
    /\ Advance("m1", Method1(cleaned), "m2")
    /\ UNCHANGED loops
    /\ UNCHANGED cacheVars
    /\ UNCHANGED keyVars

RunMethod2 ==
    /\ pc = "m2"
    /\ Advance("m2", Method2(cleaned), "m3")
    /\ UNCHANGED loops
    /\ UNCHANGED cacheVars
    /\ UNCHANGED keyVars

RunMethod3 ==
    /\ pc = "m3"
    /\ Advance("m3", Method3(cleaned), "m4")
    /\ loops' = [loops EXCEPT !.scan = ObjectScan(cleaned, 1, <<>>).cursors]
    /\ UNCHANGED cacheVars
    /\ UNCHANGED keyVars

RunMethod4 ==
    /\ pc = "m4"
    /\ Advance("m4", Method4(cleaned), "m5")
    /\ UNCHANGED loops
    /\ UNCHANGED cacheVars
    /\ UNCHANGED keyVars

RunMethod5 ==
    /\ pc = "m5"
    /\ Advance("m5", Method5(cleaned), "end")
    /\ loops' = [loops EXCEPT !.lines = Len(Split(cleaned, <<>>))]
    /\ UNCHANGED cacheVars
    /\ UNCHANGED keyVars

\* lines 361-362: return []
Exhausted ==
    /\ pc = "end"
    /\ outcome' = [kind |-> "return", val |-> <<>>, by |-> "end"]
    /\ pc' = "done"
    /\ UNCHANGED <<raw, cleaned, stages, loops>>
    /\ UNCHANGED cacheVars
    /\ UNCHANGED keyVars

CacheIdle ==
    /\ response_cache = <<>>
    /\ cache_timestamps = <<>>
    /\ heap = <<>>
    /\ now = 0
    /\ lastOp = <<>>
    /\ stored = <<>>
    /\ thr = <<>>
    /\ writer = <<>>

ParseInit ==
    /\ raw \in {Absent} \cup {Text(s) : s \in Inputs}
    /\ pc = "entry"
    /\ cleaned = <<>>
    /\ stages = <<>>
    /\ outcome = Pending
    /\ loops = NoLoops
    /\ CacheIdle
    /\ kc = <<>>

ParseNext ==
    \/ Enter
    \/ RunMethod1
    \/ RunMethod2
    \/ RunMethod3
    \/ RunMethod4
    \/ RunMethod5
    \/ Exhausted

ParseSpec == ParseInit /\ [][ParseNext]_vars

(***************************************************************************)
(* The parser on line-structured texts (SalvageSpec): the same call, on    *)
(* inputs made of lines of members such as a model emits when it does not  *)
(* produce JSON.                                                           *)
(***************************************************************************)
LineForms ==
    { <<"skuA", ",", "nameX", ",", "price9", ",", "reasonR">>,
      <<"skuA", ",", "nameX", ",", "reasonF">>,
      <<"skuA", "nameX">>,
      <<"{", "skuA", ",", "nameX">>,
      <<"skuA", "price9">>,
      <<"nameX", "price9">>,
      <<"KEY", "nameX">>,
      <<"W">>,
      <<>> }

RECURSIVE LineTexts(_)
\* the texts of at least one and at most n lines
LineTexts(n) ==
    IF n = 1 THEN LineForms
    ELSE LET prev == LineTexts(n - 1)
         IN  prev \cup {p \o <<"NL">> \o l : p \in prev, l \in LineForms}

SalvageInit ==
    /\ raw \in {Text(s) : s \in LineTexts(MaxLines)}
    /\ pc = "entry"
    /\ cleaned = <<>>
    /\ stages = <<>>
    /\ outcome = Pending
    /\ loops = NoLoops
    /\ CacheIdle
    /\ kc = <<>>

SalvageSpec == SalvageInit /\ [][ParseNext]_vars

(***************************************************************************)
(* The response cache.                                                     *)
(*                                                                         *)
(* A string of the key derivation is a sequence of runs [ch, n]: n copies  *)
(* of the character ch, adjacent runs holding different characters.  A     *)
(* cached response is a reference to a list object; heap holds the         *)
(* contents of the list objects, which their creators can still mutate.    *)
(***************************************************************************)
\* prompt_factory.py:23
CACHE_TTL == 300
\* prompt_factory.py:101  context[:200]
PrefixLen == 200

\* time.time() when the model starts, and how far the clock runs
StartTime == 1000
MaxElapsed == 400
\* the clock advances by TickStep or by CACHE_TTL seconds
TickStep == 100
\* the longest list a caller builds
MaxListLen == 1

Run(c, n) == [ch |-> c, n |-> n]

RECURSIVE Prefix(_, _)
\* s[:k] on runs
Prefix(s, k) ==
    IF s = <<>> \/ k <= 0 THEN <<>>
    ELSE IF Head(s).n >= k THEN <<Run(Head(s).ch, k)>>
    ELSE <<Head(s)>> \o Prefix(Tail(s), k - Head(s).n)

CharCode(c) == CASE c = "a" -> 97 [] c = "b" -> 98 [] c = "c" -> 99

RECURSIVE HashRuns(_, _)
\* hash(str): a deterministic function of the characters, here a polynomial
\* hash folded over the runs
HashRuns(s, h) ==
    IF s = <<>> THEN h
    ELSE HashRuns(Tail(s), (h * 31 + CharCode(Head(s).ch) * Head(s).n) % 65521)

Hash(s) == HashRuns(s, 7)

\* a key derivation that hashes the whole context instead of context[:200]
GetCacheKeyWhole(sku, context, num_recs, persona) ==
    <<sku, "_", ToString(Hash(context)), "_", ToString(num_recs), "_", persona>>

\* _get_cache_key: f"{sku}_{context_hash}_{num_recs}_{persona}"
GetCacheKey(sku, context, num_recs, persona) ==
    LET context_hash == Hash(Prefix(context, PrefixLen))
    IN  <<sku, "_", ToString(context_hash), "_", ToString(num_recs), "_", persona>>

None == [some |-> FALSE, ref |-> ""]
Some(r) == [some |-> TRUE, ref |-> r]

\* dict.pop(key, None): the mapping without key
Pop(d, key) == [j \in DOMAIN d \ {key} |-> d[j]]
\* d[key] = value
SetItem(d, key, value) == [j \in DOMAIN d \cup {key} |-> IF j = key THEN value ELSE d[j]]
\* dict.get(key, default)
GetOr(d, key, default) == IF key \in DOMAIN d THEN d[key] ELSE default

\* _get_cached_response with the expiry test  <=  in place of  <
GetCachedResponseLe(rc, ct, cache_key, t) ==
    IF cache_key \in DOMAIN rc
    THEN LET timestamp == GetOr(ct, cache_key, 0)
         IN  IF t - timestamp <= CACHE_TTL
             THEN [ret |-> Some(rc[cache_key]), rc |-> rc, ct |-> ct]
             ELSE [ret |-> None, rc |-> Pop(rc, cache_key), ct |-> Pop(ct, cache_key)]
    ELSE [ret |-> None, rc |-> rc, ct |-> ct]

\* _get_cached_response refreshing the timestamp of the entry it returns
GetCachedResponseTouch(rc, ct, cache_key, t) ==
    IF cache_key \in DOMAIN rc
    THEN LET timestamp == GetOr(ct, cache_key, 0)
         IN  IF t - timestamp < CACHE_TTL
             THEN [ret |-> Some(rc[cache_key]), rc |-> rc,
                   ct |-> SetItem(ct, cache_key, t)]
             ELSE [ret |-> None, rc |-> Pop(rc, cache_key), ct |-> Pop(ct, cache_key)]
    ELSE [ret |-> None, rc |-> rc, ct |-> ct]

\* _get_cached_response sweeping every expired entry when it finds one
GetCachedResponseSweep(rc, ct, cache_key, t) ==
    IF cache_key \in DOMAIN rc
    THEN LET timestamp == GetOr(ct, cache_key, 0)
             expired == {j \in DOMAIN rc : t - GetOr(ct, j, 0) >= CACHE_TTL}
         IN  IF t - timestamp < CACHE_TTL
             THEN [ret |-> Some(rc[cache_key]), rc |-> rc, ct |-> ct]
             ELSE [ret |-> None,
                   rc |-> [j \in DOMAIN rc \ expired |-> rc[j]],
                   ct |-> [j \in DOMAIN ct \ expired |-> ct[j]]]
    ELSE [ret |-> None, rc |-> rc, ct |-> ct]

\* _get_cached_response(cache_key) at time t on the dictionaries rc, ct:
\* the value returned and the dictionaries left
GetCachedResponse(rc, ct, cache_key, t) ==
    IF cache_key \in DOMAIN rc
    THEN LET timestamp == GetOr(ct, cache_key, 0)
         IN  IF t - timestamp < CACHE_TTL
             THEN [ret |-> Some(rc[cache_key]), rc |-> rc, ct |-> ct]
             ELSE [ret |-> None, rc |-> Pop(rc, cache_key), ct |-> Pop(ct, cache_key)]
    ELSE [ret |-> None, rc |-> rc, ct |-> ct]

\* a store that writes the value and leaves the timestamps alone
CacheResponseValueOnly(rc, ct, cache_key, response, t) ==
    [rc |-> SetItem(rc, cache_key, response), ct |-> ct]

\* _cache_response(cache_key, response) at time t
CacheResponse(rc, ct, cache_key, response, t) ==
    [rc |-> SetItem(rc, cache_key, response), ct |-> SetItem(ct, cache_key, t)]

\* get_cached_response(sku, context, num_recs, persona): `if cached` is the
\* truth value of the list, its being non-empty
GetCachedResponsePublic(rc, ct, hp, sku, context, num_recs, persona, t) ==
    LET cache_key == GetCacheKey(sku, context, num_recs, persona)
        r == GetCachedResponse(rc, ct, cache_key, t)
        cached == r.ret
    IN  [ret |-> IF cached.some /\ hp[cached.ref] # <<>> THEN cached ELSE None,
         rc |-> r.rc, ct |-> r.ct]

\* store_response_in_cache(sku, context, num_recs, persona, response)
StoreResponseInCache(rc, ct, sku, context, num_recs, persona, response, t) ==
    CacheResponse(rc, ct, GetCacheKey(sku, context, num_recs, persona), response, t)

(***************************************************************************)
(* The arguments the cache is called with.                                 *)
(***************************************************************************)
Skus == {"A"}
\* the first two agree on their first PrefixLen characters, the third does not
Contexts == { <<Run("a", 200), Run("b", 1)>>,
              <<Run("a", 200), Run("c", 1)>>,
              <<Run("a", 199), Run("b", 2)>> }
NumRecs == {5}
Personas == {"general_recommender"}
Queries == Skus \X Contexts \X NumRecs \X Personas
KeyOf(q) == GetCacheKey(q[1], q[2], q[3], q[4])
Keys == {KeyOf(q) : q \in Queries}

\* the list objects callers have created
ObjIds == {"o1", "o2"}

Op(name, key, ret) == [op |-> name, key |-> key, ret |-> ret]
NoKey == <<>>

\* what a store leaves in the history: time, reference, contents then
Stored(key, o) ==
    SetItem(stored, key, [t |-> now, ref |-> o, snap |-> heap[o]])

ParserIdle ==
    /\ kc = <<>>
    /\ raw = Absent
    /\ pc = "idle"
    /\ cleaned = <<>>
    /\ stages = <<>>
    /\ outcome = Pending
    /\ loops = NoLoops

CacheInit ==
    /\ ParserIdle
    /\ response_cache = <<>>
    /\ cache_timestamps = <<>>
    /\ heap = [o \in ObjIds |-> IF o = "o1" THEN <<"rec">> ELSE <<>>]
    /\ now = StartTime
    /\ lastOp = Op("init", NoKey, None)
    /\ stored = <<>>
    /\ thr = <<>>
    /\ writer = <<>>

\* a caller calls _cache_response(k, o)
CallCacheResponse(k, o) ==
    LET r == CacheResponse(response_cache, cache_timestamps, k, o, now)
    IN  /\ response_cache' = r.rc
        /\ cache_timestamps' = r.ct
        /\ stored' = Stored(k, o)
        /\ lastOp' = Op("_cache_response", k, None)
        /\ UNCHANGED <<heap, now, thr, writer>>
        /\ UNCHANGED parseVars
        /\ UNCHANGED keyVars

\* a caller calls _get_cached_response(k)
CallGetCachedResponse(k) ==
    LET r == GetCachedResponse(response_cache, cache_timestamps, k, now)
    IN  /\ response_cache' = r.rc
        /\ cache_timestamps' = r.ct
        /\ lastOp' = Op("_get_cached_response", k, r.ret)
        /\ UNCHANGED <<heap, now, stored, thr, writer>>
        /\ UNCHANGED parseVars
        /\ UNCHANGED keyVars

\* a caller calls store_response_in_cache(q, o)
CallStoreResponseInCache(q, o) ==
    LET r == StoreResponseInCache(response_cache, cache_timestamps,
                                  q[1], q[2], q[3], q[4], o, now)
    IN  /\ response_cache' = r.rc
        /\ cache_timestamps' = r.ct
        /\ stored' = Stored(KeyOf(q), o)
        /\ lastOp' = Op("store_response_in_cache", KeyOf(q), None)
        /\ UNCHANGED <<heap, now, thr, writer>>
        /\ UNCHANGED parseVars
        /\ UNCHANGED keyVars

\* a caller calls get_cached_response(q)
CallGetCachedResponsePublic(q) ==
    LET r == GetCachedResponsePublic(response_cache, cache_timestamps, heap,
                                     q[1], q[2], q[3], q[4], now)
    IN  /\ response_cache' = r.rc
        /\ cache_timestamps' = r.ct
        /\ lastOp' = Op("get_cached_response", KeyOf(q), r.ret)
        /\ UNCHANGED <<heap, now, stored, thr, writer>>
        /\ UNCHANGED parseVars
        /\ UNCHANGED keyVars

\* a caller mutates a list it holds a reference to: list.append / list.clear
CallerMutates(o) ==
    /\ heap' = [heap EXCEPT ![o] =
                    IF Len(heap[o]) < MaxListLen THEN Append(heap[o], "rec")
                    ELSE <<>>]
    /\ lastOp' = Op("mutate", NoKey, None)
    /\ UNCHANGED <<response_cache, cache_timestamps, now, stored, thr, writer>>
    /\ UNCHANGED parseVars
    /\ UNCHANGED keyVars

\* time passes
Tick(d) ==
    /\ now + d <= StartTime + MaxElapsed
    /\ now' = now + d
    /\ lastOp' = Op("tick", NoKey, None)
    /\ UNCHANGED <<response_cache, cache_timestamps, heap, stored, thr, writer>>
    /\ UNCHANGED parseVars
    /\ UNCHANGED keyVars

CacheNext ==
    \/ \E k \in Keys, o \in ObjIds : CallCacheResponse(k, o)
    \/ \E k \in Keys : CallGetCachedResponse(k)
    \/ \E q \in Queries, o \in ObjIds : CallStoreResponseInCache(q, o)
    \/ \E q \in Queries : CallGetCachedResponsePublic(q)
    \/ \E o \in ObjIds : CallerMutates(o)
    \/ \E d \in {TickStep, CACHE_TTL} : Tick(d)

CacheSpec == CacheInit /\ [][CacheNext]_vars

(***************************************************************************)
(* The cache under concurrent callers.  Each thread runs one call at a     *)
(* time; a step is one dictionary operation or one clock reading of        *)
(* _get_cached_response / _cache_response.  Thread "t1" stores and reads,  *)
(* thread "t2" reads, so no two stores overlap.                            *)
(*   thr[t]  : [pc, key, arg, timestamp, tsBy, res, resBy]                 *)
(*             pc names the line the thread is at; arg is the response     *)
(*             passed to, or returned by, its call; res is how its last    *)
(*             call ended: "" (none yet), "hit", "none", "stored" or       *)
(*             "KeyError"; tsBy/resBy number the store that wrote the      *)
(*             timestamp it compared and the value it returned             *)
(*   writer  : [n, val, ts, last]  n counts the stores begun; val and ts   *)
(*             give, per key, the store that wrote the item now in each    *)
(*             dictionary; last the last store completed per key           *)
(***************************************************************************)
\* the number of _cache_response calls of a run
MaxPuts == 2

Threads == {"t1", "t2"}
Putters == {"t1"}

IdleThread == [pc |-> "idle", key |-> NoKey, arg |-> "", timestamp |-> 0,
               tsBy |-> 0, res |-> "", resBy |-> 0]

ConcInit ==
    /\ ParserIdle
    /\ response_cache = <<>>
    /\ cache_timestamps = <<>>
    /\ heap = <<>>
    /\ now = StartTime
    /\ lastOp = <<>>
    /\ stored = <<>>
    /\ thr = [t \in Threads |-> IdleThread]
    /\ writer = [n |-> 0, val |-> <<>>, ts |-> <<>>, last |-> <<>>]

ConcFrame ==
    UNCHANGED <<heap, lastOp, stored>> /\ UNCHANGED parseVars /\ UNCHANGED keyVars

\* a thread calls _get_cached_response(k)
BeginGet(t, k) ==
    /\ thr[t].pc = "idle"
    /\ thr' = [thr EXCEPT ![t] = [IdleThread EXCEPT !.pc = "g107", !.key = k]]
    /\ UNCHANGED <<response_cache, cache_timestamps, now, writer>>
    /\ ConcFrame

\* line 107: if cache_key in cls._response_cache   (else line 116)
Get107(t) ==
    /\ thr[t].pc = "g107"
    /\ thr' = [thr EXCEPT ![t] =
                 IF thr[t].key \in DOMAIN response_cache
                 THEN [@ EXCEPT !.pc = "g108"]
                 ELSE [@ EXCEPT !.pc = "idle", !.res = "none"]]
    /\ UNCHANGED <<response_cache, cache_timestamps, now, writer>>
    /\ ConcFrame

\* line 108: timestamp = cls._cache_timestamps.get(cache_key, 0)
Get108(t) ==
    /\ thr[t].pc = "g108"
    /\ thr' = [thr EXCEPT ![t] =
                 [@ EXCEPT !.pc = "g109",
                           !.timestamp = GetOr(cache_timestamps, thr[t].key, 0),
                           !.tsBy = GetOr(writer.ts, thr[t].key, 0)]]
    /\ UNCHANGED <<response_cache, cache_timestamps, now, writer>>
    /\ ConcFrame

\* line 109: if time.time() - timestamp < cls.CACHE_TTL
Get109(t) ==
    /\ thr[t].pc = "g109"
    /\ thr' = [thr EXCEPT ![t] =
                 [@ EXCEPT !.pc = IF now - thr[t].timestamp < CACHE_TTL
                                  THEN "g111" ELSE "g114"]]
    /\ UNCHANGED <<response_cache, cache_timestamps, now, writer>>
    /\ ConcFrame

\* line 111: return cls._response_cache[cache_key]
Get111(t) ==
    /\ thr[t].pc = "g111"
    /\ thr' = [thr EXCEPT ![t] =
                 IF thr[t].key \in DOMAIN response_cache
                 THEN [@ EXCEPT !.pc = "idle", !.res = "hit",
                                !.arg = response_cache[thr[t].key],
                                !.resBy = writer.val[thr[t].key]]
                 ELSE [@ EXCEPT !.pc = "idle", !.res = "KeyError"]]
    /\ UNCHANGED <<response_cache, cache_timestamps, now, writer>>
    /\ ConcFrame

\* line 114: cls._response_cache.pop(cache_key, None)
Get114(t) ==
    /\ thr[t].pc = "g114"
    /\ response_cache' = Pop(response_cache, thr[t].key)
    /\ writer' = [writer EXCEPT !.val = Pop(writer.val, thr[t].key)]
    /\ thr' = [thr EXCEPT ![t] = [@ EXCEPT !.pc = "g115"]]
    /\ UNCHANGED <<cache_timestamps, now>>
    /\ ConcFrame

\* line 115: cls._cache_timestamps.pop(cache_key, None); line 116: return None
Get115(t) ==
    /\ thr[t].pc = "g115"
    /\ cache_timestamps' = Pop(cache_timestamps, thr[t].key)
    /\ writer' = [writer EXCEPT !.ts = Pop(writer.ts, thr[t].key)]
    /\ thr' = [thr EXCEPT ![t] = [@ EXCEPT !.pc = "idle", !.res = "none"]]
    /\ UNCHANGED <<response_cache, now>>
    /\ ConcFrame

\* a thread calls _cache_response(k, o)
BeginPut(t, k, o) ==
    /\ t \in Putters
    /\ thr[t].pc = "idle"
    /\ writer.n < MaxPuts
    /\ writer' = [writer EXCEPT !.n = @ + 1]
    /\ thr' = [thr EXCEPT ![t] =
                 [IdleThread EXCEPT !.pc = "p121", !.key = k, !.arg = o,
                                    !.resBy = writer.n + 1]]
    /\ UNCHANGED <<response_cache, cache_timestamps, now>>
    /\ ConcFrame

\* line 121: cls._response_cache[cache_key] = response
Put121(t) ==
    /\ thr[t].pc = "p121"
    /\ response_cache' = SetItem(response_cache, thr[t].key, thr[t].arg)
    /\ writer' = [writer EXCEPT !.val = SetItem(writer.val, thr[t].key, thr[t].resBy)]
    /\ thr' = [thr EXCEPT ![t] = [@ EXCEPT !.pc = "p122"]]
    /\ UNCHANGED <<cache_timestamps, now>>
    /\ ConcFrame

\* line 122: cls._cache_timestamps[cache_key] = time.time()
Put122(t) ==
    /\ thr[t].pc = "p122"
    /\ cache_timestamps' = SetItem(cache_timestamps, thr[t].key, now)
    /\ writer' = [writer EXCEPT
                    !.ts = SetItem(writer.ts, thr[t].key, thr[t].resBy),
                    !.last = SetItem(writer.last, thr[t].key,
                                     [id |-> thr[t].resBy, t |-> now,
                                      ref |-> thr[t].arg])]
    /\ thr' = [thr EXCEPT ![t] = [@ EXCEPT !.pc = "idle", !.res = "stored"]]
    /\ UNCHANGED <<response_cache, now>>
    /\ ConcFrame

\* time passes between any two steps
ConcTick(d) ==
    /\ now + d <= StartTime + MaxElapsed
    /\ now' = now + d
    /\ UNCHANGED <<response_cache, cache_timestamps, thr, writer>>
    /\ ConcFrame

ConcNext ==
    \/ \E t \in Threads, k \in Keys : BeginGet(t, k)
    \/ \E t \in Threads : Get107(t)
    \/ \E t \in Threads : Get108(t)
    \/ \E t \in Threads : Get109(t)
    \/ \E t \in Threads : Get111(t)
    \/ \E t \in Threads : Get114(t)
    \/ \E t \in Threads : Get115(t)
    \/ \E t \in Threads, k \in Keys, o \in ObjIds : BeginPut(t, k, o)
    \/ \E t \in Threads : Put121(t)
    \/ \E t \in Threads : Put122(t)
    \/ \E d \in {TickStep, CACHE_TTL} : ConcTick(d)

ConcSpec == ConcInit /\ [][ConcNext]_vars

(***************************************************************************)
(* _get_cache_key called twice in one process (KeySpec).  The arguments of *)
(* both calls are drawn in the initial state; each action is one call.     *)
(***************************************************************************)
KeySkus == {"A", "B"}
KeyContexts == { <<>>,
                 <<Run("a", 150)>>,
                 <<Run("a", 200)>>,
                 <<Run("a", 200), Run("b", 1)>>,
                 <<Run("a", 200), Run("c", 1)>>,
                 <<Run("a", 199), Run("b", 1)>>,
                 <<Run("a", 199), Run("b", 2)>>,
                 <<Run("a", 199), Run("c", 1), Run("b", 1)>> }
KeyNumRecs == {5, 6}
KeyPersonas == {"general_recommender", "ecommerce_retail_store_manager"}
KeyArgs == KeySkus \X KeyContexts \X KeyNumRecs \X KeyPersonas

KeyInit ==
    /\ raw = Absent
    /\ pc = "done"
    /\ cleaned = <<>>
    /\ stages = <<>>
    /\ outcome = Pending
    /\ loops = NoLoops
    /\ CacheIdle
    /\ kc \in {[pc |-> "first", a |-> a, b |-> b, ka |-> <<>>, kb |-> <<>>] :
                    a \in KeyArgs, b \in KeyArgs}

\* key = cls._get_cache_key(sku, context, num_recs, persona), first call
KeyCall1 ==
    /\ kc # <<>>
    /\ kc.pc = "first"
    /\ kc' = [kc EXCEPT !.pc = "second",
                        !.ka = GetCacheKey(kc.a[1], kc.a[2], kc.a[3], kc.a[4])]
    /\ UNCHANGED parseVars
    /\ UNCHANGED cacheVars

\* the second call, in the same process
KeyCall2 ==
    /\ kc # <<>>
    /\ kc.pc = "second"
    /\ kc' = [kc EXCEPT !.pc = "done",
                        !.kb = GetCacheKey(kc.b[1], kc.b[2], kc.b[3], kc.b[4])]
    /\ UNCHANGED parseVars
    /\ UNCHANGED cacheVars

KeyNext == KeyCall1 \/ KeyCall2

KeySpec == KeyInit /\ [][KeyNext]_vars

(***************************************************************************)
(* Claims about tryparse_llm (checked under ParseSpec).                    *)
(***************************************************************************)
\* the raw argument is absent or shorter than MinLen characters
RawIsShort == ~raw.present \/ StrLen(raw.toks) < MinLen

MethodNames == <<"m1", "m2", "m3", "m4", "m5">>

\* what the five strategies yield on a text, each taken on its own
Strategies(text) ==
    <<Method1(text), Method2(text), Method3(text), Method4(text), Method5(text)>>

\* the index of the first strategy that yields a non-empty sequence, 0 if
\* none does
FirstYielding(text) ==
    LET rs == Strategies(text)
    IN  IF \E i \in 1..5 : rs[i].kind = "yield"
        THEN CHOOSE i \in 1..5 :
                rs[i].kind = "yield" /\ \A j \in 1..(i - 1) : rs[j].kind # "yield"
        ELSE 0

\* C1: for every input of at least MinLen characters the call returns the
\* result of the first strategy, in the order m1..m5, that yields a non-empty
\* sequence, having run exactly the strategies up to that one; it returns
\* the empty sequence, having run all five, when none yields.
C1_FirstYieldingStrategyWins ==
    (pc = "done" /\ ~RawIsShort) =>
        LET text == Normalize(raw.toks)
            w    == FirstYielding(text)
        IN  /\ outcome.kind = "return"
            /\ IF w = 0
               THEN /\ outcome.val = <<>>
                    /\ stages = <<"normalize">> \o MethodNames
               ELSE /\ outcome.val = Strategies(text)[w].val
                    /\ outcome.by = MethodNames[w]
                    /\ stages = <<"normalize">> \o SubSeq(MethodNames, 1, w)

\* C2: the call never ends by an exception leaving tryparse_llm.
C2_NeverRaises == outcome.kind # "raise"

\* C3: an absent or short raw input returns the empty sequence at the guard:
\* no normalisation and no method is invoked; the length tested is the raw
\* text's, so a raw text of MinLen characters or more always reaches Method 1
\* however short its cleaned text is.
C3_ShortInputFailsFast ==
    /\ RawIsShort =>
          /\ pc \in {"entry", "done"}
          /\ stages = <<>>
          /\ pc = "done" =>
                outcome = [kind |-> "return", val |-> <<>>, by |-> "guard"]
    /\ (~RawIsShort /\ pc = "done") =>
          /\ Len(stages) >= 2
          /\ stages[1] = "normalize"
          /\ stages[2] = "m1"

\* a short but non-empty text was turned away at the guard
C3_Witness ==
    /\ pc = "done"
    /\ raw.present /\ raw.toks # <<>> /\ StrLen(raw.toks) < MinLen
    /\ outcome.by = "guard"

\* C4: every element of a returned sequence is a mapping with the key sku.
C4_EveryElementHasSku ==
    (pc = "done" /\ outcome.kind = "return") =>
        \A i \in 1..Len(outcome.val) : HasKey(outcome.val[i], "sku")

(***************************************************************************)
(* Claims about the cache, calls running one at a time (CacheSpec).        *)
(***************************************************************************)
GetOps == {"_get_cached_response", "get_cached_response"}
PutOps == {"_cache_response", "store_response_in_cache"}

\* the last step was a call of _get_cached_response
JustGot == lastOp.op = "_get_cached_response"

\* C5: a _get_cached_response(k) returns the response last stored under k
\* when less than CACHE_TTL has passed since that store; when CACHE_TTL or
\* more has passed it returns None and k is in neither dictionary; for a key
\* never stored it returns None.
C5_HitMissExpiry ==
    JustGot =>
        LET k == lastOp.key
        IN  IF k \in DOMAIN stored
            THEN IF now - stored[k].t < CACHE_TTL
                 THEN lastOp.ret = Some(stored[k].ref)
                 ELSE /\ lastOp.ret = None
                      /\ k \notin DOMAIN response_cache
                      /\ k \notin DOMAIN cache_timestamps
            ELSE lastOp.ret = None

\* a get exactly CACHE_TTL after the store found the entry expired
C5_Witness ==
    /\ JustGot
    /\ lastOp.key \in DOMAIN stored
    /\ now - stored[lastOp.key].t = CACHE_TTL
    /\ lastOp.ret = None
    /\ lastOp.key \notin DOMAIN response_cache

\* C6: get_cached_response within CACHE_TTL of a store_response_in_cache of
\* an empty list (still empty) returns that list, not None.
C6_EmptySequenceReturned ==
    LET k == lastOp.key
    IN  ( /\ lastOp.op = "get_cached_response"
          /\ k \in DOMAIN stored
          /\ now - stored[k].t < CACHE_TTL
          /\ stored[k].snap = <<>>
          /\ heap[stored[k].ref] = <<>> )
        => lastOp.ret = Some(stored[k].ref)

\* what the dictionaries hold for key k
Entry(rc, ct, k) ==
    [val |-> IF k \in DOMAIN rc THEN Some(rc[k]) ELSE None,
     ts  |-> IF k \in DOMAIN ct THEN ct[k] ELSE -1]

\* C9: an entry leaves a dictionary only in a get of its own key that finds
\* it expired; a step changes the value or timestamp of key k only if it is
\* a cache call on k (so a store removes nothing, and no call touches the
\* entries of other keys).
C9_LazyPerKeyEviction ==
    [][ \A k \in Keys :
          /\ ( \/ (k \in DOMAIN response_cache /\ k \notin DOMAIN response_cache')
               \/ (k \in DOMAIN cache_timestamps /\ k \notin DOMAIN cache_timestamps') )
             => /\ lastOp'.op \in GetOps
                /\ lastOp'.key = k
                /\ now - GetOr(cache_timestamps, k, 0) >= CACHE_TTL
          /\ Entry(response_cache, cache_timestamps, k)
                # Entry(response_cache', cache_timestamps', k)
             => /\ lastOp'.op \in GetOps \cup PutOps
                /\ lastOp'.key = k
      ]_vars

\* a get of one key evicted it while another key's expired entry stayed
C9_Witness ==
    /\ lastOp.op \in GetOps
    /\ lastOp.key \in DOMAIN stored
    /\ lastOp.key \notin DOMAIN response_cache
    /\ \E k \in DOMAIN response_cache :
          /\ k # lastOp.key
          /\ now - cache_timestamps[k] >= CACHE_TTL

\* C10: the list a cache hit returns has the contents that were stored.
C10_EntryNotAliased ==
    (lastOp.op \in GetOps /\ lastOp.ret.some) =>
        heap[lastOp.ret.ref] = stored[lastOp.key].snap

(***************************************************************************)
(* Claims about the cache under interleaved calls (ConcSpec).              *)
(***************************************************************************)
AllIdle == \A t \in Threads : thr[t].pc = "idle"

\* C7: once the calls have finished, a get of k within CACHE_TTL of the last
\* completed store of r under k returns r.
C7_EvictionKeepsFreshEntry ==
    \A k \in Keys :
        (AllIdle /\ k \in DOMAIN writer.last /\ now - writer.last[k].t < CACHE_TTL)
        => GetCachedResponse(response_cache, cache_timestamps, k, now).ret
              = Some(writer.last[k].ref)

\* C8: the value a get returns and the timestamp it compared were written
\* by the same store.
C8_ConsistentRead ==
    \A t \in Threads : thr[t].res = "hit" => thr[t].resBy = thr[t].tsBy

(***************************************************************************)
(* Claims about the key derivation (KeySpec).                              *)
(***************************************************************************)
RECURSIVE CharAt(_, _)
\* the i-th character of a string given as runs, "" past its end
CharAt(s, i) ==
    IF s = <<>> THEN ""
    ELSE IF i <= Head(s).n THEN Head(s).ch
    ELSE CharAt(Tail(s), i - Head(s).n)

AgreeOnPrefix(c1, c2) == \A i \in 1..PrefixLen : CharAt(c1, i) = CharAt(c2, i)

SameKeyInputs ==
    /\ kc.a[1] = kc.b[1]
    /\ kc.a[3] = kc.b[3]
    /\ kc.a[4] = kc.b[4]
    /\ AgreeOnPrefix(kc.a[2], kc.b[2])

\* C11: two calls of _get_cache_key with equal sku, num_recs and persona and
\* contexts that agree on their first 200 characters return the same key,
\* and the calls leave both cache dictionaries as they were.
C11_KeyFromPrefixOnly ==
    (kc # <<>> /\ kc.pc = "done") =>
        /\ SameKeyInputs => kc.ka = kc.kb
        /\ response_cache = <<>>
        /\ cache_timestamps = <<>>

C11_Witness ==
    /\ kc # <<>>
    /\ kc.pc = "done"
    /\ SameKeyInputs
    /\ kc.a[2] # kc.b[2]
    /\ kc.ka = kc.kb

(***************************************************************************)
(* Claims about the recovery parser, continued (ParseSpec).                *)
(***************************************************************************)
\* the tokens of one serialized Record: { member , member ... }
IsRecordText(s) ==
    /\ Len(s) >= 3
    /\ s[1] = "{" /\ s[Len(s)] = "}"
    /\ \A i \in 2..(Len(s) - 1) :
          IF i % 2 = 0 THEN s[i] \in PairToks ELSE s[i] = ","
    /\ \E i \in 2..(Len(s) - 1) : s[i] = "skuA"
    /\ \A i, j \in 2..(Len(s) - 1) :
          (i # j /\ i % 2 = 0 /\ j % 2 = 0) => PairKey(s[i]) # PairKey(s[j])

\* the Record a serialized Record was written from
RecordOf(s) ==
    Dict([i \in 1..((Len(s) - 1) \div 2) |->
            [k |-> PairKey(s[2 * i]), v |-> Str(PairVal(s[2 * i]))]])

\* raw is the serialization of an array of one Record
IsRecordArray(s) ==
    /\ Len(s) >= 5
    /\ s[1] = "[" /\ s[Len(s)] = "]"
    /\ IsRecordText(SubSeq(s, 2, Len(s) - 1))

\* C12: a serialized non-empty array of Records is returned with the field
\* values it was written with.
C12_RoundTrip ==
    (pc = "done" /\ raw.present /\ IsRecordArray(raw.toks)) =>
        /\ outcome.kind = "return"
        /\ outcome.val = <<RecordOf(SubSeq(raw.toks, 2, Len(raw.toks) - 1))>>

\* C13: when Methods 1-3 yield nothing and the repaired text parses as a
\* non-empty array, the call returns that array from Method 4 and Method 5 is
\* not entered.
C13_RepairStageReturns ==
    (pc = "done" /\ ~RawIsShort
       /\ Method1(cleaned).kind = "none"
       /\ Method2(cleaned).kind = "none"
       /\ Method3(cleaned).kind = "none"
       /\ LoadsNonEmptyList(RepairJson(cleaned)).kind = "yield") =>
        /\ outcome = [kind |-> "return",
                      val  |-> LoadsNonEmptyList(RepairJson(cleaned)).val,
                      by   |-> "m4"]
        /\ stages = <<"normalize", "m1", "m2", "m3", "m4">>

(***************************************************************************)
(* Claims about the cache under interleaved calls, continued (ConcSpec).   *)
(***************************************************************************)
\* C14: under every interleaving of gets and puts on a key, with the clock
\* advancing, every get ends with a stored sequence or with absent: no get
\* raises KeyError.
C14_GetNeverRaises == \A t \in Threads : thr[t].res # "KeyError"

(***************************************************************************)
(* Claims about the stages of the recovery parser (ParseSpec).             *)
(***************************************************************************)
RECURSIVE SkuSpans(_, _)
\* the spans from the first "{" at or after the cursor to the first "}"
\* after it, taken left to right, that parse as an object holding sku
SkuSpans(text, cursor) ==
    LET start == Find(text, {"{"}, cursor)
        end   == IF start = 0 THEN 0 ELSE Find(text, {"}"}, start)
    IN  IF cursor > Len(text) \/ start = 0 \/ end = 0 THEN <<>>
        ELSE LET r == JsonLoads(SubSeq(text, start, end))
             IN  (IF r.st = "ok" /\ IsDict(r.val) /\ HasKey(r.val, "sku")
                  THEN <<r.val>> ELSE <<>>)
                 \o SkuSpans(text, end + 1)

StageRan(m) == \E i \in 1..Len(stages) : stages[i] = m

\* C15: the object scan returns exactly the spans that parse as an object
\* holding sku, in their order in the text; a span that fails to parse or
\* lacks sku is skipped and the scan goes on.
C15_ObjectScanResult ==
    StageRan("m3") =>
        LET expected == SkuSpans(cleaned, 1)
        IN  IF expected # <<>>
            THEN outcome = [kind |-> "return", val |-> expected, by |-> "m3"]
            ELSE outcome.by # "m3"

\* a line on which the loop body of Method 5 emits a record
LineQualifies(line) ==
    /\ ContainsWord(line, "sku")
    /\ ContainsWord(line, "name") \/ ContainsWord(line, "price")
    /\ Search(line, "sku").found
    /\ Search(line, "name").found

\* group 1 of the pattern of field f on the line, or the default d
FieldOr(line, f, d) ==
    IF Search(line, f).found THEN Search(line, f).group1 ELSE d

\* the four-key record of a qualifying line
LineRecord(line) ==
    Dict(<< [k |-> "sku",    v |-> Str(Search(line, "sku").group1)],
            [k |-> "name",   v |-> Str(Search(line, "name").group1)],
            [k |-> "price",  v |-> Str(FieldOr(line, "price", "0"))],
            [k |-> "reason",
             v |-> Str(FieldOr(line, "reason", "Recommended product"))] >>)

RECURSIVE LineRecords(_)
\* one record per qualifying line, in line order
LineRecords(lines) ==
    IF lines = <<>> THEN <<>>
    ELSE (IF LineQualifies(Head(lines)) THEN <<LineRecord(Head(lines))>>
          ELSE <<>>) \o LineRecords(Tail(lines))

\* C16: Method 5 emits one four-key record per line, in line order, exactly
\* for the lines that hold sku with name or price and on which the sku and
\* the name pattern match, with price "0" and reason "Recommended product"
\* when their patterns do not match; any other line emits nothing.
C16_LineSalvage ==
    StageRan("m5") =>
        LET expected == LineRecords(Split(cleaned, <<>>))
        IN  IF expected # <<>>
            THEN outcome = [kind |-> "return", val |-> expected, by |-> "m5"]
            ELSE outcome.by # "m5"

\* two lines gave a record, one of them with the default price, and a line
\* that holds sku and price but no name gave none
C16_Witness ==
    /\ pc = "done"
    /\ outcome.by = "m5"
    /\ Len(outcome.val) = 2
    /\ Len(Split(cleaned, <<>>)) = 3
    /\ \E i \in 1..3 : Split(cleaned, <<>>)[i] = <<"skuA", "price9">>
    /\ \E i \in 1..2 : outcome.val[i].items[3].v = Str("0")
    /\ \E i \in 1..2 : outcome.val[i].items[3].v = Str("9")

RECURSIVE CountTok(_, _)
\* the number of occurrences of the token in the text
CountTok(s, tok) ==
    IF s = <<>> THEN 0
    ELSE (IF Head(s) = tok THEN 1 ELSE 0) + CountTok(Tail(s), tok)

\* C17 as stated: the while loop of Method 3 runs at most as many iterations
\* as the text has closing braces.
C17_IterationsWithinClosers ==
    StageRan("m3") => Len(loops.scan) <= CountTok(cleaned, "}")

\* C17: the call makes at most one step per stage; in the while loop of
\* Method 3 the cursor strictly increases, every cursor after the first is
\* just past a closing brace, and the loop runs at most one iteration more
\* than the text has closing braces (the last iteration may only break); the
\* for loop of Method 5 runs once per line.
C17_LoopsBounded ==
    /\ pc \in {"entry", "m1", "m2", "m3", "m4", "m5", "end", "done"}
    /\ Len(stages) <= 6
    /\ StageRan("m3") =>
          /\ \A i \in 2..Len(loops.scan) :
                /\ loops.scan[i - 1] < loops.scan[i]
                /\ cleaned[loops.scan[i] - 1] = "}"
          /\ Len(loops.scan) <= CountTok(cleaned, "}") + 1
    /\ StageRan("m5") => loops.lines = CountTok(cleaned, "NL") + 1

\* a call whose scan parsed one span and then broke for want of a brace:
\* two iterations for one closing brace, and two lines in Method 5
C17_Witness ==
    /\ pc = "done"
    /\ StageRan("m5")
    /\ Len(loops.scan) = 2
    /\ CountTok(cleaned, "}") = 1
    /\ loops.lines = 2

(***************************************************************************)
(* Claims about the cache, continued (CacheSpec).                          *)
(***************************************************************************)
\* C18: a get that hits, or that misses on a key not in the store, leaves
\* both dictionaries as they were; a get CACHE_TTL or more after the last
\* store under its key returns None; a timestamp is written by a store
\* under its key and by nothing else.
C18_ExpiryFromLastStore ==
    [][ /\ ( /\ lastOp'.op \in GetOps
             /\ lastOp'.ret.some \/ lastOp'.key \notin DOMAIN response_cache )
           => UNCHANGED <<response_cache, cache_timestamps>>
        /\ ( /\ lastOp'.op \in GetOps
             /\ lastOp'.key \in DOMAIN stored
             /\ now >= stored[lastOp'.key].t + CACHE_TTL )
           => lastOp'.ret = None
        /\ \A k \in DOMAIN cache_timestamps' :
              ( \/ k \notin DOMAIN cache_timestamps
                \/ cache_timestamps'[k] # cache_timestamps[k] )
              => /\ lastOp'.op \in PutOps
                 /\ lastOp'.key = k
                 /\ cache_timestamps'[k] = now
      ]_vars

\* a get hit an entry some time after its store, and the timestamp is still
\* that of the store
C18_Witness ==
    /\ lastOp.op \in GetOps
    /\ lastOp.ret.some
    /\ stored[lastOp.key].t < now
    /\ cache_timestamps[lastOp.key] = stored[lastOp.key].t

\* C19: after any sequence of complete calls the two dictionaries have the
\* same keys.
C19_SameKeySets == DOMAIN response_cache = DOMAIN cache_timestamps

\* one key was evicted by a get while another is held
C19_Witness ==
    /\ lastOp.op \in GetOps
    /\ lastOp.key \in DOMAIN stored
    /\ lastOp.key \notin DOMAIN cache_timestamps
    /\ DOMAIN cache_timestamps # {}
    /\ DOMAIN response_cache # {}

====
